---- MODULE Spec2Model ----
(***************************************************************************)
(* A model of the GTK backend of menu-rs (src/src/platform_impl/gtk/mod.rs)*)
(* one logical menu tree, projected into native widgets per window, per    *)
(* context menu and per transient popup, with the projection stores that   *)
(* let a mutation reach every native widget of an entry.                   *)
(***************************************************************************)
EXTENDS Integers, Sequences, FiniteSets, TLC

(***************************************************************************)
(* The universe: the menus and the entries an application constructs, and  *)
(* the windows of the process.                                             *)
(***************************************************************************)
Menus == {"M", "N"}
Submenus == {"F", "G"}
Normals == {"A"}
Checks == {"B"}
Predefineds == {"P", "Q", "C"}
Entries == Submenus \cup Normals \cup Checks \cup Predefineds
Containers == Menus \cup Submenus
Windows == {"W1", "W2"}

None == 0

\* Bounds of the model.
MaxChildren == 3
MaxCounter == 13
MaxBar == 4
MaxOps == 4
MaxText == 3
MaxItems == 2

\* The child sequences of an application that has built nothing yet.
NoEntries == [c \in Containers |-> <<>>]

\* The tree of an application that has appended the item A to the submenu F
\* twice and F to the menu M before it attaches a window.
FileMenu ==
    [c \in Containers |->
        IF c = "M" THEN <<"F">> ELSE IF c = "F" THEN <<"A", "A">> ELSE <<>>]

\* The tree of an application that has appended the item A and the
\* predefined item C to the menu M before it attaches a window.
EditMenu == [c \in Containers |-> IF c = "M" THEN <<"A", "C">> ELSE <<>>]

\* The tree of an application that has appended the check item B to the
\* menu M before it attaches a window.
CheckMenu == [c \in Containers |-> IF c = "M" THEN <<"B">> ELSE <<>>]

\* The tree of an application that has appended the entry x to the
\* submenus F and G, and F and G to the menu M, before it attaches a window.
SharedMenu(x) ==
    [c \in Containers |->
        IF c = "M" THEN <<"F", "G">> ELSE IF c \in {"F", "G"} THEN <<x>> ELSE <<>>]

\* The applications the model runs: the menus and the entries each one
\* uses, the entries whose text and enabled flag it sets after construction,
\* and the tree it has built when the model takes over.
Programs ==
    { [menus |-> {"M"}, items |-> {"F", "G", "A"}, attrs |-> {}, built |-> NoEntries],
      [menus |-> {"M"}, items |-> {"F", "B", "P"}, attrs |-> {}, built |-> NoEntries],
      [menus |-> {"M"}, items |-> {"A", "B", "Q"}, attrs |-> {}, built |-> NoEntries],
      [menus |-> {"M"}, items |-> {"B"}, attrs |-> {"B"}, built |-> NoEntries],
      [menus |-> {"M"}, items |-> {"A"}, attrs |-> {"A"}, built |-> NoEntries],
      [menus |-> {"M"}, items |-> {"F"}, attrs |-> {"F"}, built |-> NoEntries],
      [menus |-> {"M"}, items |-> {"P"}, attrs |-> {"P"}, built |-> NoEntries],
      [menus |-> {"M"}, items |-> {"C"}, attrs |-> {}, built |-> NoEntries],
      [menus |-> {"M", "N"}, items |-> {"A"}, attrs |-> {}, built |-> NoEntries],
      [menus |-> {"M"}, items |-> {}, attrs |-> {}, built |-> FileMenu],
      [menus |-> {"M"}, items |-> {}, attrs |-> {"A"}, built |-> EditMenu],
      [menus |-> {"M"}, items |-> {"B"}, attrs |-> {}, built |-> CheckMenu] }

\* MenuEntry.type_ : the variant of MenuItemType an entry was built with.
Type(e) ==
    IF e \in Submenus THEN "Submenu"
    ELSE IF e \in Normals THEN "Normal"
    ELSE IF e \in Checks THEN "Check"
    ELSE "Predefined"

\* The PredfinedMenuItemType held by a Predefined entry: P is a separator,
\* C is predefined::copy, Q is predefined::quit, one of the kinds the GTK
\* backend builds no widget for.
PredefinedKind(e) ==
    IF e = "P" THEN "Separator" ELSE IF e = "C" THEN "Copy" ELSE "Quit"

\* window.as_ptr(): the address of a window's GObject on a 64-bit target,
\* as its high and its low 32 bits.
WindowPtr == [w \in Windows |-> [hi |-> 1, lo |-> IF w = "W1" THEN 101 ELSE 102]]

\* p as u32: the cast keeps the low 32 bits of the address.
AsU32(p) == p.lo

\* The ids the constructors gave out, in construction order M, F, G, A, B, P,
\* Q, N, C.
\* Submenu::new takes no id from COUNTER: its id is Default::default().
CounterStart == 1
EntryId(e) ==
    CASE e \in Submenus -> 0
      [] e = "A" -> CounterStart + 3
      [] e = "B" -> CounterStart + 4
      [] e = "P" -> CounterStart + 5
      [] e = "C" -> CounterStart + 8
      [] OTHER -> CounterStart + 6

\* context_menu.0 of a menu or submenu, taken from COUNTER in the constructor.
ContextId(c) ==
    CASE c = "M" -> CounterStart
      [] c = "F" -> CounterStart + 1
      [] c = "G" -> CounterStart + 2
      [] OTHER -> CounterStart + 7

\* The first id COUNTER gives out after the constructors.
FirstId == CounterStart + 9

\* The applications with the addresses of their two windows.
Apps == {[ptr |-> WindowPtr] @@ a : a \in Programs}

\* Addresses two windows of one process can have: the same low 32 bits
\* under different high bits, and low bits that COUNTER reaches (the id of
\* the context menu of M, the first id of a submenu instance).
HeapPtrs ==
    {[hi |-> h, lo |-> l] : h \in {1, 2}, l \in {CounterStart, FirstId, 101}}

\* The application of examples/tao.rs with a File submenu, at any two
\* distinct window addresses.
PtrApps ==
    {[menus |-> {"M"}, items |-> {"G"}, attrs |-> {}, built |-> FileMenu,
      ptr |-> [w \in Windows |-> IF w = "W1" THEN p[1] ELSE p[2]]]
        : p \in {q \in HeapPtrs \X HeapPtrs : q[1] # q[2]}}

\* The text each entry was constructed with, a sequence of characters.
InitText(e) ==
    CASE e = "F" -> <<"&", "F">>
      [] e = "G" -> <<"G">>
      [] e = "A" -> <<"&", "A">>
      [] e = "B" -> <<"B">>
      [] e = "P" -> <<>>
      [] e = "C" -> <<"C">>
      [] OTHER -> <<"Q">>

VARIABLES
    entries,       \* InnerMenu.entries / MenuEntry.entries : container -> children
    text,          \* MenuEntry.text
    enabled,       \* MenuEntry.enabled
    checked,       \* MenuEntry.checked
    store,         \* MenuItemType's HashMap : entry -> (parent id -> Vec of handles)
    is_syncing,    \* MenuItemType::Check.is_syncing
    native_menus,  \* InnerMenu.native_menus : menu -> (window id -> (menubar, box))
    context_menu,  \* context_menu.1 : container -> gtk::Menu handle or None
    gtk,           \* the GTK objects alive: handle -> widget
    app,           \* the application that runs (fixed from the start)
    channel,       \* MENU_CHANNEL : the events published and not yet received
    stack,         \* the toggled callbacks and set_checked calls in progress
    accel,         \* the (menu, window) pairs whose window has the menu's AccelGroup
    popup,         \* the transient gtk::Menu that is popped up, or None
    last,          \* the last public operation and what it returned
    ops            \* the number of public operations called so far

vars == <<entries, text, enabled, checked, store, is_syncing, native_menus,
          context_menu, gtk, app, channel, stack, accel, popup, last, ops>>

\* window.as_ptr() as u32 : the key of a window in InnerMenu.native_menus.
WinId(w) == AsU32(app.ptr[w])

(***************************************************************************)
(* GTK objects.                                                            *)
(***************************************************************************)
Range(s) == {s[i] : i \in 1..Len(s)}

Widget(kind, e, label, sensitive, active, submenu) ==
    [kind |-> kind, entry |-> e, label |-> label, sensitive |-> sensitive,
     active |-> active, children |-> <<>>, submenu |-> submenu,
     visible |-> kind # "menu"]

\* A new GTK object: the lowest handle no live object has.
NewHandle(g) ==
    CHOOSE h \in 1..(Cardinality(DOMAIN g) + 1) :
        /\ h \notin DOMAIN g
        /\ \A k \in 1..(h - 1) : k \in DOMAIN g

InsertAt(s, x, p) == SubSeq(s, 1, p) \o <<x>> \o SubSeq(s, p + 1, Len(s))

\* ShellAdd that puts every new child first.
ShellAddFirst(children, h, op) == <<h>> \o children

\* gtk::MenuShell append / insert: GTK puts a child whose position is beyond
\* the end of the list at the end.
ShellAdd(children, h, op) ==
    IF op.kind = "Append" \/ op.position > Len(children)
    THEN Append(children, h)
    ELSE InsertAt(children, h, op.position)

\* gtk::Container remove: a widget that is no child of the container stays put.
ShellRemove(g, menu, h) ==
    IF menu = None \/ menu \notin DOMAIN g THEN g
    ELSE [g EXCEPT ![menu].children = SelectSeq(@, LAMBDA x : x # h)]

RECURSIVE ShellRemoveAll(_, _, _)
ShellRemoveAll(g, menu, hs) ==
    IF hs = <<>> THEN g
    ELSE ShellRemoveAll(ShellRemove(g, menu, Head(hs)), menu, Tail(hs))

\* to_gtk_mnemonic: the portable marker & becomes GTK's marker _ ; a doubled
\* && is kept as it is.
RECURSIVE ToGtkMnemonic(_)
ToGtkMnemonic(s) ==
    IF s = <<>> THEN <<>>
    ELSE IF Len(s) >= 2 /\ s[1] = "&" /\ s[2] = "&"
         THEN <<"&", "&">> \o ToGtkMnemonic(SubSeq(s, 3, Len(s)))
         ELSE <<IF s[1] = "&" THEN "_" ELSE s[1]>> \o ToGtkMnemonic(Tail(s))

\* from_gtk_mnemonic that returns the label as it is.
FromGtkMnemonicAsIs(s) == s

\* from_gtk_mnemonic: GTK's marker _ becomes the portable marker & ; a
\* doubled __ is kept as it is.
RECURSIVE FromGtkMnemonic(_)
FromGtkMnemonic(s) ==
    IF s = <<>> THEN <<>>
    ELSE IF Len(s) >= 2 /\ s[1] = "_" /\ s[2] = "_"
         THEN <<"_", "_">> \o FromGtkMnemonic(SubSeq(s, 3, Len(s)))
         ELSE <<IF s[1] = "_" THEN "&" ELSE s[1]>> \o FromGtkMnemonic(Tail(s))

\* The texts of at most MaxText characters over a letter and a marker.
TextsOver(marker) ==
    UNION {[1..n -> {"a", marker}] : n \in 0..MaxText}

\* Texts in the portable convention and labels in GTK's: with no marker,
\* with one, with a doubled one, and the other combinations of that length.
PortableTexts == TextsOver("&")
NativeTexts == TextsOver("_")

(***************************************************************************)
(* The projection stores.                                                  *)
(***************************************************************************)
\* StorePush that registers the item for the parent id and for key 0.
StorePushAlsoUnderZero(s, e, menu_id, item) ==
    [s EXCEPT ![e] =
        IF menu_id \in DOMAIN @
        THEN [@ EXCEPT ![menu_id] = Append(@, item)]
        ELSE IF menu_id = 0 \/ 0 \in DOMAIN @ THEN @ @@ (menu_id :> <<item>>)
        ELSE @ @@ (menu_id :> <<item>>) @@ (0 :> <<item>>)]

\* store.get_mut(&menu_id) push, or store.insert(menu_id, vec![item])
StorePush(s, e, menu_id, item) ==
    [s EXCEPT ![e] =
        IF menu_id \in DOMAIN @
        THEN [@ EXCEPT ![menu_id] = Append(@, item)]
        ELSE @ @@ (menu_id :> <<item>>)]

\* store.remove(&key)
StoreRemove(s, e, key) ==
    [s EXCEPT ![e] = [k \in (DOMAIN @) \ {key} |-> @[k]]]

\* The gtk::MenuItem of a stored element: the first field of a submenu's tuple.
ItemOf(e, x) == IF Type(e) = "Submenu" THEN x.item ELSE x

RECURSIVE ItemsOf(_, _)
ItemsOf(e, xs) ==
    IF xs = <<>> THEN <<>> ELSE <<ItemOf(e, Head(xs))>> \o ItemsOf(e, Tail(xs))

\* The keys of a HashMap in the order the model walks them (ascending).
RECURSIVE SortedSeq(_)
SortedSeq(S) ==
    IF S = {} THEN <<>>
    ELSE LET m == CHOOSE x \in S : \A y \in S : x <= y
         IN <<m>> \o SortedSeq(S \ {m})

RECURSIVE Flatten(_)
Flatten(ss) == IF ss = <<>> THEN <<>> ELSE Head(ss) \o Flatten(Tail(ss))

\* store.values() flattened: every stored element of an entry.
StoreValues(s, e) ==
    LET keys == SortedSeq(DOMAIN s[e])
    IN Flatten([i \in 1..Len(keys) |-> s[e][keys[i]]])

(***************************************************************************)
(* The projector: add_gtk_* and add_entries_to_gtkmenu.  Each takes the    *)
(* native state st = [gtk, store, ids, panic] and returns the new one.     *)
(***************************************************************************)
\* The ids from COUNTER some projection still carries: the keys of the
\* stores that are no window's key, and the ids of the stored submenu
\* instances.
UsedIds(s) ==
    (UNION {DOMAIN s[e] : e \in Entries} \ {WinId(w) : w \in Windows})
    \cup UNION {UNION {{s[e][k][i].id : i \in 1..Len(s[e][k])} : k \in DOMAIN s[e]}
                : e \in Submenus}

\* COUNTER.next(): an id that no projection carries.  The program only ever
\* compares ids, so it cannot tell the lowest id that nothing carries any
\* more from the never-used one COUNTER gives it; the model takes the lowest.
NextId(st) ==
    LET used == UsedIds(st.store) \cup st.ids
    IN CHOOSE n \in FirstId..(FirstId + Cardinality(used)) :
          /\ n \notin used
          /\ \A k \in FirstId..(n - 1) : k \in used

add_gtk_text_menuitem(st, menu, menu_id, e, op, add_to_store) ==
    IF Type(e) # "Normal" THEN st
    ELSE LET h == NewHandle(st.gtk)
             item == Widget("item", e, ToGtkMnemonic(text[e]), enabled[e], FALSE, None)
             g1 == st.gtk @@ (h :> item)
         IN [st EXCEPT
                !.gtk = [g1 EXCEPT ![menu].children = ShellAdd(@, h, op)],
                !.store = IF add_to_store THEN StorePush(@, e, menu_id, h) ELSE @]

\* The widget add_gtk_predefined_menuitm builds for a predefined kind, if any.
PredefinedWidget(e) ==
    CASE PredefinedKind(e) = "Separator" ->
            <<Widget("separator", e, <<>>, TRUE, FALSE, None)>>
      [] PredefinedKind(e) \in {"Copy", "Cut", "Paste", "SelectAll", "About"} ->
            <<Widget("item", e, ToGtkMnemonic(text[e]), TRUE, FALSE, None)>>
      [] OTHER -> <<>>

add_gtk_predefined_menuitm(st, menu, menu_id, e, op, add_to_store) ==
    IF Type(e) # "Predefined" \/ PredefinedWidget(e) = <<>> THEN st
    ELSE LET h == NewHandle(st.gtk)
             g1 == st.gtk @@ (h :> PredefinedWidget(e)[1])
         IN [st EXCEPT
                !.gtk = [g1 EXCEPT ![menu].children = ShellAdd(@, h, op)],
                !.store = IF add_to_store THEN StorePush(@, e, menu_id, h) ELSE @]

\* add_gtk_check_menuitem with a widget that starts unchecked.
add_gtk_check_menuitem_unchecked(st, menu, menu_id, e, op, add_to_store) ==
    LET h == NewHandle(st.gtk)
        item == Widget("check", e, ToGtkMnemonic(text[e]), enabled[e], FALSE, None)
        g1 == st.gtk @@ (h :> item)
    IN [st EXCEPT
           !.gtk = [g1 EXCEPT ![menu].children = ShellAdd(@, h, op)],
           !.store = IF add_to_store /\ Type(e) = "Check"
                     THEN StorePush(@, e, menu_id, h) ELSE @]

add_gtk_check_menuitem(st, menu, menu_id, e, op, add_to_store) ==
    LET h == NewHandle(st.gtk)
        item == Widget("check", e, ToGtkMnemonic(text[e]), enabled[e], checked[e], None)
        g1 == st.gtk @@ (h :> item)
    IN [st EXCEPT
           !.gtk = [g1 EXCEPT ![menu].children = ShellAdd(@, h, op)],
           !.store = IF add_to_store /\ Type(e) = "Check"
                     THEN StorePush(@, e, menu_id, h) ELSE @]

RECURSIVE add_gtk_submenu(_, _, _, _, _, _)
RECURSIVE add_entries_to_gtkmenu(_, _, _, _, _)

add_gtk_submenu(st, menu, menu_id, e, op, add_to_store) ==
    LET submenu == NewHandle(st.gtk)
        g1 == st.gtk @@ (submenu :> Widget("menu", e, <<>>, TRUE, FALSE, None))
        item == NewHandle(g1)
        g2 == g1 @@ (item :> Widget("item", e, ToGtkMnemonic(text[e]), enabled[e],
                                    FALSE, submenu))
        g3 == [g2 EXCEPT ![menu].children = ShellAdd(@, item, op)]
        id == NextId(st)
        st1 == add_entries_to_gtkmenu(
                   [st EXCEPT !.gtk = g3, !.ids = @ \cup {id}],
                   submenu, id, entries[e], add_to_store)
    IN [st1 EXCEPT !.store =
           StorePush(@, e, menu_id, [item |-> item, menu |-> submenu, id |-> id])]

\* The add_gtk_* function that goes with the type of an entry.
AddGtkByType(st, menu, menu_id, e, op, add_to_store) ==
    CASE Type(e) = "Submenu" -> add_gtk_submenu(st, menu, menu_id, e, op, add_to_store)
      [] Type(e) = "Normal" -> add_gtk_text_menuitem(st, menu, menu_id, e, op, add_to_store)
      [] Type(e) = "Predefined" ->
            add_gtk_predefined_menuitm(st, menu, menu_id, e, op, add_to_store)
      [] OTHER -> add_gtk_check_menuitem(st, menu, menu_id, e, op, add_to_store)

add_entries_to_gtkmenu(st, menu, menu_id, es, add_to_store) ==
    IF es = <<>> THEN st
    ELSE add_entries_to_gtkmenu(
             AddGtkByType(st, menu, menu_id, Head(es), [kind |-> "Append"], add_to_store),
             menu, menu_id, Tail(es), add_to_store)

(***************************************************************************)
(* Teardown: remove_gtk_by_parent_id of Submenu and of Menu.               *)
(***************************************************************************)
\* The type_() of the wrapper that Menu::items / Submenu::items build for an
\* entry: a Predefined entry comes back wrapped as a crate::MenuItem.
ItemsType(e) == IF Type(e) = "Predefined" THEN "Normal" ELSE Type(e)

\* TakeStored that takes everything the entry has stored, under every key.
TakeStoredUnderEveryKey(st, e, key, menu) ==
    IF st.panic \/ key \notin DOMAIN st.store[e] THEN st
    ELSE [st EXCEPT
             !.store = [@ EXCEPT ![e] = <<>>],
             !.gtk = ShellRemoveAll(@, menu, ItemsOf(e, st.store[e][key]))]

\* if let Some(items) = store.remove(&key) { for item in items { menu.remove(&item) } }
TakeStored(st, e, key, menu) ==
    IF st.panic \/ key \notin DOMAIN st.store[e] THEN st
    ELSE [st EXCEPT
             !.store = StoreRemove(@, e, key),
             !.gtk = ShellRemoveAll(@, menu, ItemsOf(e, st.store[e][key]))]

\* let items = store.remove(menu_id).unwrap(); for item in items { menu.remove(&item) }
UnwrapStored(st, e, key, menu) ==
    IF st.panic THEN st
    ELSE IF key \notin DOMAIN st.store[e] THEN [st EXCEPT !.panic = TRUE]
    ELSE TakeStored(st, e, key, menu)

RECURSIVE SubmenuRemoveGtkByParentId(_, _, _, _)
RECURSIVE RemoveItemsByParentId(_, _, _, _)
RECURSIVE RemoveUnderInstances(_, _, _)

\* for item in submenu.items() { submenu.0.remove_gtk_by_parent_id(id, &*item) }
RemoveItemsByParentId(st, s, parent_id, cs) ==
    IF cs = <<>> THEN st
    ELSE RemoveItemsByParentId(SubmenuRemoveGtkByParentId(st, s, parent_id, Head(cs)),
                               s, parent_id, Tail(cs))

\* The body of Submenu::remove_gtk_by_parent_id for child c, once for each
\* instance (_, menu, _, menu_id) the submenu has under parent_id.
RemoveUnderInstances(st, c, insts) ==
    IF insts = <<>> \/ st.panic THEN st
    ELSE LET inst == Head(insts)
             st1 == CASE ItemsType(c) = "Submenu" ->
                            UnwrapStored(RemoveItemsByParentId(st, c, inst.id, entries[c]),
                                         c, inst.id, inst.menu)
                      [] ItemsType(c) = "Normal" ->
                            IF Type(c) = "Normal"
                            THEN UnwrapStored(st, c, inst.id, inst.menu) ELSE st
                      [] OTHER -> UnwrapStored(st, c, inst.id, inst.menu)
         IN RemoveUnderInstances(st1, c, Tail(insts))

SubmenuRemoveGtkByParentId(st, s, parent_id, c) ==
    IF st.panic \/ parent_id \notin DOMAIN st.store[s] THEN st
    ELSE RemoveUnderInstances(st, c, st.store[s][parent_id])

\* Menu::remove_gtk_by_parent_id for one item of Menu::items().
MenuRemoveGtkByParentId(st, m, parent_id, c) ==
    IF st.panic \/ parent_id \notin DOMAIN native_menus[m]
       \/ native_menus[m][parent_id].bar = None
    THEN st
    ELSE LET bar == native_menus[m][parent_id].bar
         IN CASE ItemsType(c) = "Submenu" ->
                    TakeStored(RemoveItemsByParentId(st, c, parent_id, entries[c]),
                               c, parent_id, bar)
              [] ItemsType(c) = "Normal" ->
                    IF Type(c) = "Normal" THEN TakeStored(st, c, parent_id, bar) ELSE st
              [] OTHER -> TakeStored(st, c, parent_id, bar)

RECURSIVE MenuRemoveAllByParentId(_, _, _, _)
MenuRemoveAllByParentId(st, m, parent_id, cs) ==
    IF cs = <<>> THEN st
    ELSE MenuRemoveAllByParentId(MenuRemoveGtkByParentId(st, m, parent_id, Head(cs)),
                                 m, parent_id, Tail(cs))

(***************************************************************************)
(* Where a container is projected: the native parents a structural change  *)
(* is fanned out to.                                                       *)
(***************************************************************************)
\* The windows of a menu that have a menubar, as (menu, id) targets.
MenuBars(m) ==
    LET keys == SortedSeq({k \in DOMAIN native_menus[m] : native_menus[m][k].bar # None})
    IN [i \in 1..Len(keys) |-> [menu |-> native_menus[m][keys[i]].bar, id |-> keys[i]]]

\* The instances of a submenu: every tuple of its store.
Instances(s) ==
    LET xs == StoreValues(store, s)
    IN [i \in 1..Len(xs) |-> [menu |-> xs[i].menu, id |-> xs[i].id]]

ContextTarget(c) ==
    IF context_menu[c] = None THEN <<>>
    ELSE <<[menu |-> context_menu[c], id |-> ContextId(c)]>>

Targets(c) == (IF c \in Menus THEN MenuBars(c) ELSE Instances(c)) \o ContextTarget(c)

RECURSIVE AddToTargets(_, _, _, _)
AddToTargets(st, ts, e, op) ==
    IF ts = <<>> THEN st
    ELSE AddToTargets(AddGtkByType(st, Head(ts).menu, Head(ts).id, e, op, TRUE),
                      Tail(ts), e, op)

\* The native half of Menu::add_menu_item and Submenu::add_menu_item.
AddNative(st, c, e, op) == AddToTargets(st, Targets(c), e, op)

\* The native half of remove, for one native parent of the container.
RemoveUnderTarget(st, e, t) ==
    IF Type(e) = "Submenu"
    THEN TakeStored(RemoveItemsByParentId(st, e, t.id, entries[e]), e, t.id, t.menu)
    ELSE TakeStored(st, e, t.id, t.menu)

RECURSIVE RemoveFromTargets(_, _, _)
RemoveFromTargets(st, ts, e) ==
    IF ts = <<>> THEN st
    ELSE RemoveFromTargets(RemoveUnderTarget(st, e, Head(ts)), Tail(ts), e)

\* The native half of Menu::remove and Submenu::remove: the menubars or the
\* submenu instances first, then whatever the item stores under the
\* container's context-menu id.
RemoveNative(st, c, e) ==
    TakeStored(RemoveFromTargets(st, IF c \in Menus THEN MenuBars(c) ELSE Instances(c), e),
               e, ContextId(c), context_menu[c])

\* entries.iter().position(|e| e.borrow().id == item.id())
Position(es, e) ==
    IF \E i \in 1..Len(es) : EntryId(es[i]) = EntryId(e)
    THEN CHOOSE i \in 1..Len(es) :
            /\ EntryId(es[i]) = EntryId(e)
            /\ \A j \in 1..(i - 1) : EntryId(es[j]) # EntryId(e)
    ELSE None

RemoveAt(s, i) == SubSeq(s, 1, i - 1) \o SubSeq(s, i + 1, Len(s))

(***************************************************************************)
(* The GTK objects still referenced: everything the program holds a handle *)
(* of, and what those contain.                                             *)
(***************************************************************************)
Refs(g, h) ==
    IF h \notin DOMAIN g THEN {}
    ELSE Range(g[h].children) \cup (IF g[h].submenu = None THEN {} ELSE {g[h].submenu})

RECURSIVE Reach(_, _)
Reach(g, S) ==
    LET N == S \cup UNION {Refs(g, h) : h \in S}
    IN IF N = S THEN S ELSE Reach(g, N)

StoreHandles(s) ==
    UNION {UNION {UNION {IF Type(e) = "Submenu" THEN {s[e][k][i].item, s[e][k][i].menu}
                                                ELSE {s[e][k][i]}
                         : i \in 1..Len(s[e][k])}
                  : k \in DOMAIN s[e]}
           : e \in Entries}

Roots(s, nm, cm, stk, pop) ==
    StoreHandles(s)
    \cup UNION {UNION {{nm[m][k].bar, nm[m][k].box} : k \in DOMAIN nm[m]} : m \in Menus}
    \cup {cm[c] : c \in Containers}
    \cup {stk[i].item : i \in 1..Len(stk)}
    \cup {pop}

Collect(g, s, nm, cm, stk, pop) ==
    LET live == Reach(g, Roots(s, nm, cm, stk, pop) \ {None})
    IN [h \in live \cap DOMAIN g |-> g[h]]

\* gtk_widget_destroy: the widget and everything inside it is taken apart.
DestroyTree(g, h) ==
    LET dead == Reach(g, {h})
        g1 == [x \in DOMAIN g |->
                 IF x \in dead THEN [g[x] EXCEPT !.children = <<>>, !.submenu = None]
                 ELSE [g[x] EXCEPT !.children = SelectSeq(@, LAMBDA y : y \notin dead)]]
    IN g1

St == [gtk |-> gtk, store |-> store, ids |-> {}, panic |-> FALSE]

(***************************************************************************)
(* The initial state: Menu::new, Submenu::new, MenuItem::new,              *)
(* CheckMenuItem::new and PredefinedMenuItem::new have run and the         *)
(* application has built its first tree; nothing is attached and nothing   *)
(* is projected.                                                           *)
(***************************************************************************)
\* What last records of a public operation: its name and result, for an
\* addition the container, the entry or the slice of entries and the
\* position, for an attach the window and whether it had no menubar, for
\* set_checked and a toggle the entry and the value, for a toggle the
\* widget as well, and the events published and the toggle notifications
\* dropped by the guard since it began.
Did(op, res) ==
    [op |-> op, res |-> res, c |-> "-", e |-> "-", pos |-> 0, w |-> "-",
     fresh |-> FALSE, value |-> FALSE, events |-> 0, dropped |-> 0,
     again |-> FALSE, box |-> None, items |-> <<>>, item |-> None]

StartWith(A, T) ==
    /\ app \in A
    /\ entries = app.built
    /\ text \in T
    /\ enabled = [e \in Entries |-> e # "A"]
    /\ checked = [e \in Entries |-> FALSE]
    /\ store = [e \in Entries |-> <<>>]
    /\ is_syncing = [e \in Checks |-> FALSE]
    /\ native_menus = [m \in Menus |-> <<>>]
    /\ context_menu = [c \in Containers |-> None]
    /\ gtk = <<>>
    /\ channel = <<>>
    /\ stack = <<>>
    /\ accel = {}
    /\ popup = None
    /\ last = Did("new", "ok")
    /\ ops = 0

Start(A) == StartWith(A, {[e \in Entries |-> InitText(e)]})

Init == Start(Apps)

\* No callback is running, no earlier call has panicked, and the event loop
\* has received what was published.
Ready == stack = <<>> /\ last.res # "panic" /\ channel = <<>> /\ ops < MaxOps

\* The native state an operation leaves, within the bounds of the model.
Commit(st, nm, cm, stk, pop) ==
    /\ \A n \in st.ids : n <= MaxCounter
    /\ store' = st.store
    /\ gtk' = Collect(st.gtk, st.store, nm, cm, stk, pop)

\* The containers the application has.
AppContainers == app.menus \cup (app.items \cap Submenus)

\* The containers inside an entry, itself included.
RECURSIVE Inside(_, _)
Inside(e, n) ==
    IF e \notin Submenus \/ n = 0 THEN {e}
    ELSE {e} \cup UNION {Inside(entries[e][i], n - 1) : i \in 1..Len(entries[e])}

\* A caller adds no submenu to itself or to one of its descendants.
MayAdd(c, e) ==
    /\ Len(entries[c]) < MaxChildren
    /\ c \notin Inside(e, Cardinality(Submenus))

(***************************************************************************)
(* Structural mutations.                                                   *)
(***************************************************************************)
\* Menu::add_menu_item and Submenu::add_menu_item: the native widgets first,
\* then entries.push or entries.insert, which panics beyond the end.
add_menu_item(c, e, op, name) ==
    LET st1 == AddNative(St, c, e, op)
        beyond == op.kind = "Insert" /\ op.position > Len(entries[c])
    IN /\ entries' = IF beyond THEN entries
                     ELSE [entries EXCEPT ![c] =
                              IF op.kind = "Append" THEN Append(@, e)
                              ELSE InsertAt(@, e, op.position)]
       /\ Commit(st1, native_menus, context_menu, stack, popup)
       /\ last' = [Did(name, IF beyond THEN "panic" ELSE "ok") EXCEPT
                      !.c = c, !.e = e,
                      !.pos = IF op.kind = "Append" THEN 0 ELSE op.position]
       /\ ops' = ops + 1
       /\ UNCHANGED <<text, enabled, checked, is_syncing, native_menus, context_menu,
                      app, channel, stack, accel, popup>>

AppendItem(c, e) ==
    /\ Ready /\ MayAdd(c, e)
    /\ add_menu_item(c, e, [kind |-> "Append"], "append")

\* PrependItem with AddOp::Append in place of AddOp::Insert(0).
PrependItemAtEnd(c, e) ==
    /\ Ready /\ MayAdd(c, e)
    /\ add_menu_item(c, e, [kind |-> "Append"], "prepend")

PrependItem(c, e) ==
    /\ Ready /\ MayAdd(c, e)
    /\ add_menu_item(c, e, [kind |-> "Insert", position |-> 0], "prepend")

\* One position beyond the end stands for every position beyond it.
InsertItem(c, e, p) ==
    /\ Ready /\ MayAdd(c, e)
    /\ p <= Len(entries[c]) + 1
    /\ add_menu_item(c, e, [kind |-> "Insert", position |-> p], "insert")

\* Menu::remove and Submenu::remove: the native widgets first, then the
\* child sequence, looked up by id.  A caller removes no submenu from itself.
RemoveItem(c, e) ==
    /\ Ready
    /\ c # e
    /\ LET st1 == RemoveNative(St, c, e)
           i == Position(entries[c], e)
           res == IF st1.panic THEN "panic"
                  ELSE IF i = None THEN "NotAChildOfThisMenu" ELSE "ok"
       IN /\ entries' = IF res = "ok" THEN [entries EXCEPT ![c] = RemoveAt(@, i)]
                        ELSE entries
          /\ Commit(st1, native_menus, context_menu, stack, popup)
          /\ last' = Did("remove", res)
          /\ ops' = ops + 1
    /\ UNCHANGED <<text, enabled, checked, is_syncing, native_menus, context_menu,
                   app, channel, stack, accel, popup>>

\* The native half of remove for an item taken from items(): a predefined
\* entry comes back wrapped as a MenuItem, whose branch of remove matches
\* MenuItemType::Normal only and leaves the predefined entry's store alone.
RemoveNativeOfItems(st, c, e) ==
    IF ItemsType(e) # Type(e) THEN st ELSE RemoveNative(st, c, e)

\* Submenu::remove_at: the item at position of items(), removed with
\* Submenu::remove, whose result is dropped.
RemoveAtItem(s, position) ==
    /\ Ready
    /\ IF Len(entries[s]) > position
       THEN LET item == entries[s][position + 1]
                st1 == RemoveNativeOfItems(St, s, item)
                i == Position(entries[s], item)
            IN /\ entries' = IF st1.panic \/ i = None THEN entries
                             ELSE [entries EXCEPT ![s] = RemoveAt(@, i)]
               /\ Commit(st1, native_menus, context_menu, stack, popup)
               /\ last' = [Did("remove_at", IF st1.panic THEN "panic" ELSE "Some")
                              EXCEPT !.c = s, !.e = item, !.pos = position]
       ELSE /\ last' = [Did("remove_at", "None") EXCEPT !.c = s, !.pos = position]
            /\ UNCHANGED <<entries, store, gtk>>
    /\ ops' = ops + 1
    /\ UNCHANGED <<text, enabled, checked, is_syncing, native_menus, context_menu,
                   app, channel, stack, accel, popup>>

\* ItemPosition that gives every item of the slice the position of the first.
ItemPositionOfFirst(position, i) == position

\* position + i in Submenu::insert_items
ItemPosition(position, i) == position + i

\* for (i, item) in items.iter().enumerate() { self.insert(*item, position + i)? }
\* from item i on: each insert is a whole add_menu_item, and the loop ends
\* at the first insert that fails.  r holds the native state, the child
\* sequence of the submenu and the result so far.
RECURSIVE InsertEach(_, _, _, _, _)
InsertEach(r, s, items, position, i) ==
    IF i >= Len(items) \/ r.res # "ok" THEN r
    ELSE LET op == [kind |-> "Insert", position |-> ItemPosition(position, i)]
             item == items[i + 1]
             beyond == op.position > Len(r.entries)
         IN InsertEach([st |-> AddToTargets(r.st, Targets(s), item, op),
                        entries |-> IF beyond THEN r.entries
                                    ELSE InsertAt(r.entries, item, op.position),
                        res |-> IF beyond THEN "panic" ELSE "ok"],
                       s, items, position, i + 1)

\* The body of Submenu::insert_items.
insert_items(s, items, position, name) ==
    LET r == InsertEach([st |-> St, entries |-> entries[s], res |-> "ok"],
                        s, items, position, 0)
    IN /\ entries' = [entries EXCEPT ![s] = r.entries]
       /\ Commit(r.st, native_menus, context_menu, stack, popup)
       /\ last' = [Did(name, r.res) EXCEPT !.c = s, !.pos = position, !.items = items]
       /\ ops' = ops + 1
       /\ UNCHANGED <<text, enabled, checked, is_syncing, native_menus, context_menu,
                      app, channel, stack, accel, popup>>

\* Submenu::insert_items; one position beyond the end stands for every
\* position beyond it.
InsertItems(s, items, position) ==
    /\ Ready
    /\ \A i \in 1..Len(items) : MayAdd(s, items[i])
    /\ position <= Len(entries[s]) + 1
    /\ insert_items(s, items, position, "insert_items")

\* Submenu::prepend_items: self.insert_items(items, 0)
PrependItems(s, items) ==
    /\ Ready
    /\ \A i \in 1..Len(items) : MayAdd(s, items[i])
    /\ insert_items(s, items, 0, "prepend_items")

(***************************************************************************)
(* Windows and context menus.                                              *)
(***************************************************************************)
\* FirstTime that takes a window whose menubar was detached for a new one.
FirstTimeOrDetached(m, id) ==
    \/ id \notin DOMAIN native_menus[m]
    \/ native_menus[m][id].bar = None

\* inner.native_menus.get(&id).is_none()
FirstTime(m, id) == id \notin DOMAIN native_menus[m]

\* Menu::init_for_gtk_window
InitForGtkWindow(m, w) ==
    /\ Ready
    /\ LET id == WinId(w)
           first == FirstTime(m, id)
           nobar == id \notin DOMAIN native_menus[m] \/ native_menus[m][id].bar = None
           box == IF first THEN NewHandle(gtk) ELSE native_menus[m][id].box
           g1 == IF first
                 THEN gtk @@ (box :> Widget("box", "-", <<>>, TRUE, FALSE, None))
                 ELSE gtk
           bar == IF nobar THEN NewHandle(g1) ELSE native_menus[m][id].bar
           g2 == IF nobar
                 THEN g1 @@ (bar :> Widget("menubar", "-", <<>>, TRUE, FALSE, None))
                 ELSE g1
           st1 == add_entries_to_gtkmenu([St EXCEPT !.gtk = g2], bar, id, entries[m], TRUE)
           st2 == [st1 EXCEPT !.gtk[box].children =
                                  IF bar \in Range(@) THEN @ ELSE Append(@, bar),
                              !.gtk[bar].visible = TRUE]
           nm == [native_menus EXCEPT ![m] = (id :> [bar |-> bar, box |-> box]) @@ @]
       IN /\ Len(g2[bar].children) + Len(entries[m]) <= MaxBar
          /\ native_menus' = nm
          /\ Commit(st2, nm, context_menu, stack, popup)
          /\ accel' = accel \cup {<<m, w>>}
          /\ last' = [Did("init", "ok") EXCEPT !.c = m, !.w = w, !.fresh = nobar,
                                               !.again = id \in DOMAIN native_menus[m] /\ nobar,
                                               !.box = box]
          /\ ops' = ops + 1
    /\ UNCHANGED <<entries, text, enabled, checked, is_syncing, context_menu, app,
                   channel, stack, popup>>

\* Menu::remove_for_gtk_window
RemoveForGtkWindow(m, w) ==
    /\ Ready
    /\ LET id == WinId(w)
           live == id \in DOMAIN native_menus[m] /\ native_menus[m][id].bar # None
           bar == native_menus[m][id].bar
           st1 == MenuRemoveAllByParentId(St, m, id, entries[m])
           done == live /\ ~st1.panic
           st2 == IF done THEN [st1 EXCEPT !.gtk = DestroyTree(@, bar)]
                  ELSE IF live THEN st1 ELSE St
           nm == IF done THEN [native_menus EXCEPT ![m][id].bar = None] ELSE native_menus
       IN /\ native_menus' = nm
          /\ Commit(st2, nm, context_menu, stack, popup)
          /\ accel' = IF done THEN accel \ {<<m, w>>} ELSE accel
          /\ last' = [Did("detach", IF ~live THEN "NotInitialized"
                                    ELSE IF st1.panic THEN "panic" ELSE "ok")
                         EXCEPT !.c = m, !.w = w]
          /\ ops' = ops + 1
    /\ UNCHANGED <<entries, text, enabled, checked, is_syncing, context_menu, app,
                   channel, stack, popup>>

\* Menu::hide_for_gtk_window
HideForGtkWindow(m, w) ==
    /\ Ready
    /\ LET id == WinId(w)
           live == id \in DOMAIN native_menus[m] /\ native_menus[m][id].bar # None
       IN /\ gtk' = IF live THEN [gtk EXCEPT ![native_menus[m][id].bar].visible = FALSE]
                    ELSE gtk
          /\ last' = [Did("hide", IF live THEN "ok" ELSE "NotInitialized")
                         EXCEPT !.c = m, !.w = w]
    /\ ops' = ops + 1
    /\ UNCHANGED <<entries, text, enabled, checked, store, is_syncing, native_menus,
                   context_menu, app, channel, stack, accel, popup>>

\* gtk_widget_show_all: the widget and the children of the container.
ShowAll(g, h) ==
    [x \in DOMAIN g |->
        IF x = h \/ x \in Range(g[h].children) THEN [g[x] EXCEPT !.visible = TRUE]
        ELSE g[x]]

\* Menu::show_for_gtk_window
ShowForGtkWindow(m, w) ==
    /\ Ready
    /\ LET id == WinId(w)
           live == id \in DOMAIN native_menus[m] /\ native_menus[m][id].bar # None
       IN /\ gtk' = IF live THEN ShowAll(gtk, native_menus[m][id].bar) ELSE gtk
          /\ last' = [Did("show", IF live THEN "ok" ELSE "NotInitialized")
                         EXCEPT !.c = m, !.w = w]
    /\ ops' = ops + 1
    /\ UNCHANGED <<entries, text, enabled, checked, store, is_syncing, native_menus,
                   context_menu, app, channel, stack, accel, popup>>

\* Menu::gtk_context_menu and Submenu::gtk_context_menu
GtkContextMenu(c) ==
    /\ Ready
    /\ LET make == context_menu[c] = None
           menu == IF make THEN NewHandle(gtk) ELSE context_menu[c]
           g1 == gtk @@ (menu :> Widget("menu", "-", <<>>, TRUE, FALSE, None))
           st1 == IF make
                  THEN add_entries_to_gtkmenu([St EXCEPT !.gtk = g1], menu, ContextId(c),
                                              entries[c], TRUE)
                  ELSE St
           cm == [context_menu EXCEPT ![c] = menu]
       IN /\ context_menu' = cm
          /\ Commit(st1, native_menus, cm, stack, popup)
          /\ last' = Did("context", "ok")
          /\ ops' = ops + 1
    /\ UNCHANGED <<entries, text, enabled, checked, is_syncing, native_menus, app,
                   channel, stack, accel, popup>>

\* Menu::show_context_menu_for_gtk_window and
\* Submenu::show_context_menu_for_gtk_window, for a window that is realized:
\* a new gtk::Menu built under parent id 0 with add_to_store = false and
\* popped up, in place of the popup shown before.
ShowContextMenu(c) ==
    /\ Ready
    /\ LET gtk_menu == NewHandle(gtk)
           g1 == gtk @@ (gtk_menu :> Widget("menu", "-", <<>>, TRUE, FALSE, None))
           st1 == add_entries_to_gtkmenu([St EXCEPT !.gtk = g1], gtk_menu, 0,
                                         entries[c], FALSE)
       IN /\ popup' = gtk_menu
          /\ Commit(st1, native_menus, context_menu, stack, gtk_menu)
          /\ last' = [Did("popup", "ok") EXCEPT !.c = c]
          /\ ops' = ops + 1
    /\ UNCHANGED <<entries, text, enabled, checked, is_syncing, native_menus,
                   context_menu, app, channel, stack, accel>>

(***************************************************************************)
(* Text and enabled.                                                       *)
(***************************************************************************)
\* The other text an application gives an entry.
NewText(e) == <<"x", "&", e>>

\* Peers that walks the handles of one parent id only.
PeersUnderOneId(e) ==
    IF DOMAIN store[e] = {} THEN <<>>
    ELSE ItemsOf(e, store[e][SortedSeq(DOMAIN store[e])[1]])

\* Every native handle an entry has stored, under every parent id.
Peers(e) == ItemsOf(e, StoreValues(store, e))

\* store.get(&0).map(|items| items.first()): the handle the getters read.
GetterItem(e) ==
    IF 0 \in DOMAIN store[e] /\ store[e][0] # <<>>
    THEN <<ItemOf(e, store[e][0][1])>> ELSE <<>>

\* Submenu::text, MenuItem::text, PredefinedMenuItem::text, CheckMenuItem::text
TextOf(e) ==
    IF GetterItem(e) # <<>>
    THEN FromGtkMnemonic(gtk[GetterItem(e)[1]].label) ELSE text[e]

\* Submenu::is_enabled, MenuItem::is_enabled, CheckMenuItem::is_enabled
is_enabled(e) ==
    IF GetterItem(e) # <<>> THEN gtk[GetterItem(e)[1]].sensitive ELSE enabled[e]

\* CheckMenuItem::is_checked
is_checked(e) ==
    IF GetterItem(e) # <<>> THEN gtk[GetterItem(e)[1]].active ELSE checked[e]

\* Submenu::set_text, MenuItem::set_text, CheckMenuItem::set_text; in
\* PredefinedMenuItem::set_text the store is matched against
\* MenuItemType::Normal, and the other arm is unreachable!().
SetText(e, t) ==
    /\ Ready
    /\ text' = [text EXCEPT ![e] = t]
    /\ gtk' = IF Type(e) = "Predefined" THEN gtk
              ELSE [h \in DOMAIN gtk |->
                      IF h \in Range(Peers(e))
                      THEN [gtk[h] EXCEPT !.label = ToGtkMnemonic(t)] ELSE gtk[h]]
    /\ last' = [Did("set_text", IF Type(e) = "Predefined" THEN "panic" ELSE "ok")
                   EXCEPT !.e = e]
    /\ ops' = ops + 1
    /\ UNCHANGED <<entries, enabled, checked, store, is_syncing, native_menus,
                   context_menu, app, channel, stack, accel, popup>>

\* Submenu::set_enabled, MenuItem::set_enabled, CheckMenuItem::set_enabled
SetEnabled(e, b) ==
    /\ Ready
    /\ Type(e) # "Predefined"
    /\ enabled' = [enabled EXCEPT ![e] = b]
    /\ gtk' = [h \in DOMAIN gtk |->
                 IF h \in Range(Peers(e)) THEN [gtk[h] EXCEPT !.sensitive = b] ELSE gtk[h]]
    /\ last' = [Did("set_enabled", "ok") EXCEPT !.e = e, !.value = b]
    /\ ops' = ops + 1
    /\ UNCHANGED <<entries, text, checked, store, is_syncing, native_menus,
                   context_menu, app, channel, stack, accel, popup>>

(***************************************************************************)
(* Check items: CheckMenuItem::set_checked and the connect_toggled closure *)
(* of add_gtk_check_menuitem, step by step.  stack holds the calls in      *)
(* progress, the innermost last: set_active on a peer whose state changes  *)
(* makes GTK call that peer's closure before set_active returns.           *)
(***************************************************************************)
Frame(fn, item, e, pc, value, todo) ==
    [fn |-> fn, item |-> item, e |-> e, pc |-> pc, value |-> value, todo |-> todo]

Top == stack[Len(stack)]
Pop == SubSeq(stack, 1, Len(stack) - 1)
SetTop(f) == [stack EXCEPT ![Len(stack)] = f]

\* The widgets a user can reach: those under a menubar, a context menu or
\* the popup.
Shown ==
    Reach(gtk, ({popup} \cup {context_menu[c] : c \in Containers}
                \cup UNION {{native_menus[m][k].bar : k \in DOMAIN native_menus[m]}
                            : m \in Menus}) \ {None})

\* The widgets of the entry of widget h a user can reach.
Clicked(h) == {x \in Shown : gtk[x].entry = gtk[h].entry /\ gtk[x].kind = gtk[h].kind}

\* UserToggle with the toggled closure connected to the stored widgets
\* only.
UserToggleStoredOnly(h) ==
    /\ Ready
    /\ h \in Shown /\ gtk[h].kind = "check" /\ gtk[h].sensitive
    /\ gtk' = [gtk EXCEPT ![h].active = ~@]
    /\ stack' = IF h \in Range(Peers(gtk[h].entry))
                THEN <<Frame("toggled", h, gtk[h].entry, "cas", FALSE, <<>>)>>
                ELSE <<>>
    /\ last' = [Did("toggle", "ok") EXCEPT !.e = gtk[h].entry, !.value = ~gtk[h].active,
                                           !.item = h]
    /\ ops' = ops + 1
    /\ UNCHANGED <<entries, text, enabled, checked, store, is_syncing, native_menus,
                   context_menu, app, channel, accel, popup>>

\* The user clicks a check widget: GTK flips it and calls its closure.
UserToggle(h) ==
    /\ Ready
    /\ h \in Shown /\ gtk[h].kind = "check" /\ gtk[h].sensitive
    /\ gtk' = [gtk EXCEPT ![h].active = ~@]
    /\ stack' = <<Frame("toggled", h, gtk[h].entry, "cas", FALSE, <<>>)>>
    /\ last' = [Did("toggle", "ok") EXCEPT !.e = gtk[h].entry, !.value = ~gtk[h].active,
                                           !.item = h]
    /\ ops' = ops + 1
    /\ UNCHANGED <<entries, text, enabled, checked, store, is_syncing, native_menus,
                   context_menu, app, channel, accel, popup>>

\* UserActivate whose closure sends one event for each widget of the entry.
UserActivatePerWidget(h) ==
    /\ Ready
    /\ h \in Shown /\ gtk[h].kind = "item" /\ gtk[h].sensitive
    /\ Type(gtk[h].entry) \in {"Normal", "Predefined"}
    /\ LET e == gtk[h].entry
           n == IF Type(e) = "Normal" THEN Cardinality(Clicked(h)) ELSE 0
       IN /\ channel' = channel \o [i \in 1..n |-> EntryId(e)]
          /\ last' = [Did("activate", "ok") EXCEPT !.e = e, !.events = n]
    /\ ops' = ops + 1
    /\ UNCHANGED <<entries, text, enabled, checked, store, is_syncing, native_menus,
                   context_menu, gtk, app, stack, accel, popup>>

\* The user activates the widget of a normal or a predefined entry: GTK
\* calls the closure connect_activate gave it.  The closure of a normal
\* item sends MenuEvent { id }; the closure of Copy, Cut, Paste and
\* SelectAll sends the key sequence to the focused window with xdo, and
\* sends no event.
UserActivate(h) ==
    /\ Ready
    /\ h \in Shown /\ gtk[h].kind = "item" /\ gtk[h].sensitive
    /\ Type(gtk[h].entry) \in {"Normal", "Predefined"}
    /\ LET e == gtk[h].entry
           n == IF Type(e) = "Normal" THEN 1 ELSE 0
       IN /\ channel' = channel \o [i \in 1..n |-> EntryId(e)]
          /\ last' = [Did("activate", "ok") EXCEPT !.e = e, !.events = n]
    /\ ops' = ops + 1
    /\ UNCHANGED <<entries, text, enabled, checked, store, is_syncing, native_menus,
                   context_menu, gtk, app, stack, accel, popup>>

\* ToggledEnter with the guard read but never taken: every notification
\* starts a pass.
ToggledEnterNoGuard ==
    /\ stack # <<>> /\ Top.pc = "cas"
    /\ stack' = SetTop([Top EXCEPT !.pc = "dispatch"])
    /\ UNCHANGED <<entries, text, enabled, checked, store, is_syncing, native_menus,
                   context_menu, gtk, app, channel, accel, popup, last, ops>>

\* should_dispatch: is_syncing.compare_exchange(false, true); the closure
\* returns at once when the flag was set already.
ToggledEnter ==
    /\ stack # <<>> /\ Top.pc = "cas"
    /\ IF is_syncing[Top.e]
       THEN /\ stack' = Pop
            /\ last' = [last EXCEPT !.dropped = @ + 1]
            /\ UNCHANGED is_syncing
       ELSE /\ is_syncing' = [is_syncing EXCEPT ![Top.e] = TRUE]
            /\ stack' = SetTop([Top EXCEPT !.pc = "dispatch"])
            /\ UNCHANGED last
    /\ UNCHANGED <<entries, text, enabled, checked, store, native_menus, context_menu,
                   gtk, app, channel, accel, popup, ops>>

\* ToggledDispatch without entry.checked = checked.
ToggledDispatchStale ==
    /\ stack # <<>> /\ Top.pc = "dispatch"
    /\ stack' = SetTop([Top EXCEPT !.pc = "loop", !.value = gtk[Top.item].active,
                                   !.todo = Peers(Top.e)])
    /\ UNCHANGED <<entries, text, enabled, checked, store, is_syncing, native_menus,
                   context_menu, gtk, app, channel, accel, popup, last, ops>>

\* ToggledDispatch that goes on to the send before the peers are set and
\* the guard is put back.
ToggledDispatchThenSend ==
    /\ stack # <<>> /\ Top.pc = "dispatch"
    /\ checked' = [checked EXCEPT ![Top.e] = gtk[Top.item].active]
    /\ stack' = SetTop([Top EXCEPT !.pc = "send", !.value = gtk[Top.item].active])
    /\ UNCHANGED <<entries, text, enabled, store, is_syncing, native_menus, context_menu,
                   gtk, app, channel, accel, popup, last, ops>>

\* checked = i.is_active(); entry.checked = checked; type_ = entry.type_.clone()
ToggledDispatch ==
    /\ stack # <<>> /\ Top.pc = "dispatch"
    /\ checked' = [checked EXCEPT ![Top.e] = gtk[Top.item].active]
    /\ stack' = SetTop([Top EXCEPT !.pc = "loop", !.value = gtk[Top.item].active,
                                   !.todo = Peers(Top.e)])
    /\ UNCHANGED <<entries, text, enabled, store, is_syncing, native_menus, context_menu,
                   gtk, app, channel, accel, popup, last, ops>>

\* SetActive that has the closure of a peer called whether or not the
\* state of the peer changes.
SetActiveAlwaysNotifies ==
    /\ stack # <<>> /\ Top.pc = "loop" /\ Top.todo # <<>>
    /\ LET h == Head(Top.todo)
           rest == SetTop([Top EXCEPT !.todo = Tail(@)])
       IN /\ gtk' = [gtk EXCEPT ![h].active = Top.value]
          /\ stack' = Append(rest, Frame("toggled", h, gtk[h].entry, "cas", FALSE, <<>>))
    /\ UNCHANGED <<entries, text, enabled, checked, store, is_syncing, native_menus,
                   context_menu, app, channel, accel, popup, last, ops>>

\* i.set_active(checked) for the next stored peer, in the closure and in
\* set_checked alike: a peer whose state changes has its closure called.
SetActive ==
    /\ stack # <<>> /\ Top.pc = "loop" /\ Top.todo # <<>>
    /\ LET h == Head(Top.todo)
           rest == SetTop([Top EXCEPT !.todo = Tail(@)])
       IN IF gtk[h].active = Top.value
          THEN /\ stack' = rest
               /\ UNCHANGED gtk
          ELSE /\ gtk' = [gtk EXCEPT ![h].active = Top.value]
               /\ stack' = Append(rest, Frame("toggled", h, gtk[h].entry, "cas", FALSE, <<>>))
    /\ UNCHANGED <<entries, text, enabled, checked, store, is_syncing, native_menus,
                   context_menu, app, channel, accel, popup, last, ops>>

\* LoopDone without is_syncing.store(false).
LoopDoneKeepsGuard ==
    /\ stack # <<>> /\ Top.pc = "loop" /\ Top.todo = <<>>
    /\ stack' = IF Top.fn = "toggled" THEN SetTop([Top EXCEPT !.pc = "send"]) ELSE Pop
    /\ UNCHANGED <<entries, text, enabled, checked, store, is_syncing, native_menus,
                   context_menu, gtk, app, channel, accel, popup, last, ops>>

\* is_syncing.store(false) after the loop; set_checked returns here.
LoopDone ==
    /\ stack # <<>> /\ Top.pc = "loop" /\ Top.todo = <<>>
    /\ is_syncing' = [is_syncing EXCEPT ![Top.e] = FALSE]
    /\ stack' = IF Top.fn = "toggled" THEN SetTop([Top EXCEPT !.pc = "send"]) ELSE Pop
    /\ UNCHANGED <<entries, text, enabled, checked, store, native_menus, context_menu,
                   gtk, app, channel, accel, popup, last, ops>>

\* MENU_CHANNEL.0.send(MenuEvent { id })
ToggledSend ==
    /\ stack # <<>> /\ Top.pc = "send"
    /\ channel' = Append(channel, EntryId(Top.e))
    /\ stack' = Pop
    /\ last' = [last EXCEPT !.events = @ + 1]
    /\ UNCHANGED <<entries, text, enabled, checked, store, is_syncing, native_menus,
                   context_menu, gtk, app, accel, popup, ops>>

\* SetChecked without is_syncing.store(true).
SetCheckedNoGuard(e, v) ==
    /\ Ready
    /\ checked' = [checked EXCEPT ![e] = v]
    /\ stack' = <<Frame("set_checked", None, e, "loop", v, Peers(e))>>
    /\ last' = [Did("set_checked", "ok") EXCEPT !.e = e, !.value = v]
    /\ ops' = ops + 1
    /\ UNCHANGED <<entries, text, enabled, is_syncing, store, native_menus, context_menu,
                   gtk, app, channel, accel, popup>>

\* CheckMenuItem::set_checked up to the loop: entry.checked = checked;
\* type_ = entry.type_.clone(); is_syncing.store(true)
SetChecked(e, v) ==
    /\ Ready
    /\ checked' = [checked EXCEPT ![e] = v]
    /\ is_syncing' = [is_syncing EXCEPT ![e] = TRUE]
    /\ stack' = <<Frame("set_checked", None, e, "loop", v, Peers(e))>>
    /\ last' = [Did("set_checked", "ok") EXCEPT !.e = e, !.value = v]
    /\ ops' = ops + 1
    /\ UNCHANGED <<entries, text, enabled, store, native_menus, context_menu, gtk, app,
                   channel, accel, popup>>

\* The application's event loop takes an event off the channel.
Receive ==
    /\ stack = <<>> /\ channel # <<>>
    /\ channel' = Tail(channel)
    /\ UNCHANGED <<entries, text, enabled, checked, store, is_syncing, native_menus,
                   context_menu, gtk, app, stack, accel, popup, last, ops>>

Next ==
    \/ \E c \in AppContainers, e \in app.items : AppendItem(c, e)
    \/ \E c \in AppContainers, e \in app.items : PrependItem(c, e)
    \/ \E c \in AppContainers, e \in app.items, p \in 1..(MaxChildren + 1) :
          InsertItem(c, e, p)
    \/ \E c \in AppContainers, e \in app.items : RemoveItem(c, e)
    \/ \E s \in app.items \cap Submenus, position \in 0..MaxChildren :
          RemoveAtItem(s, position)
    \/ \E m \in app.menus, w \in Windows : InitForGtkWindow(m, w)
    \/ \E m \in app.menus, w \in Windows : RemoveForGtkWindow(m, w)
    \/ \E m \in app.menus, w \in Windows : HideForGtkWindow(m, w)
    \/ \E m \in app.menus, w \in Windows : ShowForGtkWindow(m, w)
    \/ \E c \in AppContainers : GtkContextMenu(c)
    \/ \E c \in AppContainers : ShowContextMenu(c)
    \/ \E e \in app.attrs : SetText(e, NewText(e))
    \/ \E e \in app.attrs : SetText(e, InitText(e))
    \/ \E e \in app.attrs, b \in BOOLEAN : SetEnabled(e, b)
    \/ \E e \in app.items \cap Checks, v \in BOOLEAN : SetChecked(e, v)
    \/ \E h \in DOMAIN gtk : UserToggle(h)
    \/ \E h \in DOMAIN gtk : UserActivate(h)
    \/ ToggledEnter
    \/ ToggledDispatch
    \/ SetActive
    \/ LoopDone
    \/ ToggledSend
    \/ Receive

Spec == Init /\ [][Next]_vars

\* A step of a toggled closure or of set_checked in progress.
HandlerStep == ToggledEnter \/ ToggledDispatch \/ SetActive \/ LoopDone \/ ToggledSend

\* The program whose handlers run on: GTK calls a closure from set_active
\* and the closure and set_checked run to their return on the one thread
\* that owns the widgets.
LiveSpec == Spec /\ WF_vars(HandlerStep)

\* The application of examples/tao.rs that has one item, normal or check,
\* in its File and in its Window submenu.
SharedApps ==
    {[menus |-> {"M"}, items |-> {"F", x}, attrs |-> {x}, built |-> SharedMenu(x),
      ptr |-> WindowPtr] : x \in {"A", "B"}}

\* The program that removes the item from one submenu, projected in windows,
\* context menus and popups, and goes on setting its text, enabled and
\* checked values.
SharedNext ==
    \/ \E c \in AppContainers, e \in app.items : RemoveItem(c, e)
    \/ \E c \in AppContainers, e \in app.items : AppendItem(c, e)
    \/ \E m \in app.menus, w \in Windows : InitForGtkWindow(m, w)
    \/ \E c \in AppContainers : GtkContextMenu(c)
    \/ \E c \in AppContainers : ShowContextMenu(c)
    \/ \E e \in app.attrs : SetText(e, NewText(e))
    \/ \E e \in app.attrs, b \in BOOLEAN : SetEnabled(e, b)
    \/ \E e \in app.items \cap Checks, v \in BOOLEAN : SetChecked(e, v)
    \/ \E h \in DOMAIN gtk : UserToggle(h)
    \/ HandlerStep
    \/ Receive

SharedSpec == Start(SharedApps) /\ [][SharedNext]_vars

\* The program at any window addresses: the operations that create a
\* projection root or a submenu instance, the detach and the remove.
IdNext ==
    \/ \E m \in app.menus, w \in Windows : InitForGtkWindow(m, w)
    \/ \E m \in app.menus, w \in Windows : RemoveForGtkWindow(m, w)
    \/ \E c \in AppContainers : GtkContextMenu(c)
    \/ \E c \in AppContainers : ShowContextMenu(c)
    \/ \E c \in AppContainers, e \in app.items : AppendItem(c, e)
    \/ \E c \in AppContainers, e \in app.items : RemoveItem(c, e)

IdSpec == Start(PtrApps) /\ [][IdNext]_vars

\* The application that gives its File submenu any portable text, at
\* construction and with set_text, and shows it in a menubar, a context menu
\* and a popup.
TextApps ==
    {[menus |-> {"M"}, items |-> {}, attrs |-> {"F"}, built |-> FileMenu,
      ptr |-> WindowPtr]}

TextNext ==
    \/ \E e \in app.attrs, t \in PortableTexts : SetText(e, t)
    \/ \E m \in app.menus, w \in Windows : InitForGtkWindow(m, w)
    \/ \E c \in AppContainers : GtkContextMenu(c)
    \/ \E c \in AppContainers : ShowContextMenu(c)

TextSpec ==
    /\ StartWith(TextApps, {[e \in Entries |-> IF e = "F" THEN x ELSE InitText(e)] :
                              x \in PortableTexts})
    /\ [][TextNext]_vars

\* The slices of items an application passes to insert_items and
\* prepend_items: up to MaxItems of its entries, in any order, one entry
\* twice included.
ItemSlices == UNION {[1..n -> app.items] : n \in 0..MaxItems}

\* The applications that build a submenu F from slices of items.
ItemsApps == {a \in Apps : "F" \in a.items /\ a.attrs = {}}

\* The program that fills its submenus with insert_items and prepend_items,
\* before and after it attaches a window and realizes a context menu.
ItemsNext ==
    \/ \E s \in app.items \cap Submenus, items \in ItemSlices,
          p \in 0..(MaxChildren + 1) : InsertItems(s, items, p)
    \/ \E s \in app.items \cap Submenus, items \in ItemSlices : PrependItems(s, items)
    \/ \E c \in AppContainers, e \in app.items : AppendItem(c, e)
    \/ \E c \in AppContainers, e \in app.items : RemoveItem(c, e)
    \/ \E m \in app.menus, w \in Windows : InitForGtkWindow(m, w)
    \/ \E c \in AppContainers : GtkContextMenu(c)

ItemsSpec == Start(ItemsApps) /\ [][ItemsNext]_vars

(***************************************************************************)
(* What a projection shows.                                                *)
(***************************************************************************)
\* The entries GTK has a widget for.
HasWidget(e) == Type(e) # "Predefined" \/ PredefinedWidget(e) # <<>>

Visible(es) == SelectSeq(es, HasWidget)

\* Widget h is a widget of entry e and shows its current text, enabled and
\* checked values (a predefined item is always sensitive, a separator has
\* no label).
ShowsEntry(h, e) ==
    /\ h \in DOMAIN gtk
    /\ gtk[h].entry = e
    /\ gtk[h].kind = "separator" \/ gtk[h].label = ToGtkMnemonic(text[e])
    /\ gtk[h].sensitive = enabled[e]
    /\ Type(e) = "Check" => gtk[h].active = checked[e]

\* The native children ws are, one to one and in order, widgets of the
\* logical children es (of all of them, or of those GTK has a widget for),
\* and so on inside every submenu, n levels deep.
RECURSIVE Projects(_, _, _, _)
Projects(ws, es, all, n) ==
    LET ls == IF all THEN es ELSE Visible(es)
    IN /\ Len(ws) = Len(ls)
       /\ \A i \in 1..Len(ls) :
             /\ ShowsEntry(ws[i], ls[i])
             /\ Type(ls[i]) = "Submenu" =>
                   /\ n > 0
                   /\ gtk[ws[i]].submenu \in DOMAIN gtk
                   /\ Projects(gtk[gtk[ws[i]].submenu].children, entries[ls[i]], all, n - 1)

Depth == Cardinality(Submenus) + 1

\* The menubar of menu m in window w, or None.
Bar(m, w) ==
    IF WinId(w) \in DOMAIN native_menus[m] THEN native_menus[m][WinId(w)].bar ELSE None

\* Window w has a menubar of m that shows m's logical tree.
BarProjects(m, w, all) ==
    /\ Bar(m, w) # None
    /\ Projects(gtk[Bar(m, w)].children, entries[m], all, Depth)

\* The entries the children of a native menu belong to, in order.
NativeSeq(g, menu) == [i \in 1..Len(g[menu].children) |-> g[g[menu].children[i]].entry]

(***************************************************************************)
(* Structure.                                                              *)
(***************************************************************************)
\* C4: after every append, prepend, insert and remove that did not panic,
\* whatever attach and detach came before, the native widgets under every
\* attached window equal the logical tree: the same entries in the same
\* order with the same text, enabled and checked values.  Entries of a
\* predefined kind GTK has no widget for are left out of the comparison.
AttachedWindowsShowTree ==
    (last.op \in {"append", "prepend", "insert", "remove"} /\ last.res # "panic") =>
        \A m \in Menus, w \in Windows : Bar(m, w) # None => BarProjects(m, w, FALSE)

Under(m, w) == Reach(gtk, {Bar(m, w)}) \ {Bar(m, w)}

\* C6: the widgets a window gets when it is attached carry the latest text,
\* enabled and checked values of their entries, whatever set_text,
\* set_enabled, set_checked and toggles came before.
AttachShowsCurrentState ==
    (last.op = "init" /\ last.fresh) =>
        \A h \in Under(last.c, last.w) :
            gtk[h].kind \in {"item", "check"} =>
                /\ gtk[h].label = ToGtkMnemonic(text[gtk[h].entry])
                /\ gtk[h].sensitive = enabled[gtk[h].entry]
                /\ gtk[h].active = (gtk[h].kind = "check" /\ checked[gtk[h].entry])

\* A window has been attached after its check item was given another text,
\* disabled, and checked by a toggle or by set_checked.
AttachShowsCurrentStateWitness ==
    /\ last.op = "init" /\ last.fresh
    /\ \E h \in Under(last.c, last.w) :
          /\ gtk[h].kind = "check" /\ gtk[h].active
          /\ \/ gtk[h].label # ToGtkMnemonic(InitText(gtk[h].entry))
             \/ ~gtk[h].sensitive

\* C7: an insert at a position within the child sequence puts the entry at
\* that logical index and, in every projection that showed the container's
\* children in their logical order, leaves the native children in the
\* logical order (entries without a widget aside).
InsertKeepsOrder ==
    [][(ops' # ops /\ last'.op = "insert" /\ last'.res = "ok") =>
          LET c == last'.c
          IN /\ entries'[c][last'.pos + 1] = last'.e
             /\ \A i \in 1..Len(Targets(c)) :
                   LET menu == Targets(c)[i].menu
                   IN NativeSeq(gtk, menu) = Visible(entries[c])
                         => NativeSeq(gtk', menu) = Visible(entries'[c])]_vars

InsertBeyondEndChangesNothing ==
    [][(ops' # ops /\ last'.op = "insert" /\ last'.pos > Len(entries[last'.c])) =>
          /\ last'.res # "ok"
          /\ entries' = entries /\ gtk' = gtk /\ store' = store]_vars

\* C10: remove of an item that is no entry of the container's child
\* sequence returns NotAChildOfThisMenu.
RemoveOfNonChildFails ==
    [][\A c \in Containers, e \in Entries :
          (RemoveItem(c, e) /\ e \notin Range(entries[c]))
              => last'.res = "NotAChildOfThisMenu"]_vars

\* C11: a successful remove of a child deletes from the child sequence
\* exactly one occurrence of the entry the item refers to; every other
\* child, other submenus included, stays, in the same order.
RemoveDeletesItsEntry ==
    [][\A c \in Containers, e \in Entries :
          (RemoveItem(c, e) /\ last'.res = "ok" /\ e \in Range(entries[c]))
              => \E i \in 1..Len(entries[c]) :
                    /\ entries[c][i] = e
                    /\ entries'[c] = RemoveAt(entries[c], i)]_vars

\* C12: a remove that returns NotAChildOfThisMenu has changed nothing: the
\* logical trees, the native widgets and the projection stores are as they
\* were before the call.
FailedRemoveChangesNothing ==
    [][(ops' # ops /\ last'.op = "remove" /\ last'.res = "NotAChildOfThisMenu") =>
          /\ entries' = entries
          /\ gtk' = gtk
          /\ store' = store]_vars

\* The menu has a live menubar for the window.
Live(m, w) ==
    /\ WinId(w) \in DOMAIN native_menus[m]
    /\ native_menus[m][WinId(w)].bar # None

\* C14: show, hide and detach of a window return NotInitialized exactly when
\* the menu has no live menubar for that window, and then change nothing;
\* with a live menubar they succeed, so a second detach without an attach
\* in between returns NotInitialized.
WindowOpsNeedLiveMenubar ==
    [][\A m \in Menus, w \in Windows :
          (ShowForGtkWindow(m, w) \/ HideForGtkWindow(m, w) \/ RemoveForGtkWindow(m, w))
              => /\ last'.res = (IF Live(m, w) THEN "ok" ELSE "NotInitialized")
                 /\ ~Live(m, w) =>
                       UNCHANGED <<entries, text, enabled, checked, store, is_syncing,
                                   native_menus, context_menu, gtk, accel, popup>>]_vars

\* The entries of a container's tree, at any depth.
Descendants(c) ==
    UNION {Inside(entries[c][i], Cardinality(Submenus)) : i \in 1..Len(entries[c])}

\* C15: after a successful detach of a window no entry of the menu's tree,
\* of any kind and at any depth, has handles stored under the window's id.
DetachClearsStores ==
    [][\A m \in Menus, w \in Windows :
          (RemoveForGtkWindow(m, w) /\ last'.res = "ok")
              => \A e \in Descendants(m) : WinId(w) \notin DOMAIN store'[e]]_vars

\* The nested-submenu ids of the submenu instances that are stored.
StoredInstanceIds ==
    UNION {{Instances(s)[i].id : i \in 1..Len(Instances(s))} : s \in Submenus}

\* C16: an entry has handles stored under a nested-submenu id only while the
\* submenu instance that introduced the id is stored itself.
NestedIdsHaveAnInstance ==
    \A e \in Entries : \A k \in DOMAIN store[e] :
        k \in FirstId..MaxCounter => k \in StoredInstanceIds

\* C17: showing a context menu builds a transient projection and leaves the
\* store of every entry, submenus included, as it was.
PopupLeavesStores ==
    [][\A c \in Containers : ShowContextMenu(c) => store' = store]_vars

Registered(e) ==
    UNION {{ItemOf(e, store[e][k][i]) : i \in 1..Len(store[e][k])} : k \in DOMAIN store[e]}

\* C19: set_text and set_enabled on a submenu, a normal item or a check item
\* set the logical field and the label or the sensitivity of every handle
\* the entry has registered, under every parent id; the child sequences, the
\* checked flags, the stores and every other entry and widget stay as they
\* were.
SettersReachEveryHandle ==
    [][\A e \in Submenus \cup Normals \cup Checks :
          /\ \A t \in {NewText(e), InitText(e)} :
                SetText(e, t) =>
                   /\ last'.res = "ok"
                   /\ text' = [text EXCEPT ![e] = t]
                   /\ enabled' = enabled
                   /\ gtk' = [h \in DOMAIN gtk |->
                                IF h \in Registered(e)
                                THEN [gtk[h] EXCEPT !.label = ToGtkMnemonic(t)]
                                ELSE gtk[h]]
                   /\ UNCHANGED <<entries, checked, store>>
          /\ \A b \in BOOLEAN :
                SetEnabled(e, b) =>
                   /\ last'.res = "ok"
                   /\ enabled' = [enabled EXCEPT ![e] = b]
                   /\ text' = text
                   /\ gtk' = [h \in DOMAIN gtk |->
                                IF h \in Registered(e)
                                THEN [gtk[h] EXCEPT !.sensitive = b]
                                ELSE gtk[h]]
                   /\ UNCHANGED <<entries, checked, store>>]_vars

\* A setter has run on an entry with handles registered under two parent
\* ids, and every one of them shows the new value.
SettersReachEveryHandleWitness ==
    /\ last.op \in {"set_text", "set_enabled"}
    /\ last.res = "ok"
    /\ Cardinality(DOMAIN store[last.e]) >= 2
    /\ \A h \in Registered(last.e) :
          /\ gtk[h].label = ToGtkMnemonic(text[last.e])
          /\ gtk[h].sensitive = enabled[last.e]
    /\ \/ last.op = "set_text" /\ text[last.e] = NewText(last.e)
       \/ last.op = "set_enabled" /\ enabled[last.e] # (last.e # "A")

\* C20: set_text on a predefined item completes normally, sets the logical
\* text and the label of every handle the entry has registered.
PredefinedSetTextCompletes ==
    [][\A e \in Predefineds : \A t \in {NewText(e), InitText(e)} :
          SetText(e, t) =>
             /\ last'.res = "ok"
             /\ text'[e] = t
             /\ \A h \in Registered(e) :
                   gtk'[h].kind = "item" => gtk'[h].label = ToGtkMnemonic(t)]_vars

\* C21: each user activation of a widget of a normal entry publishes exactly
\* one event, carrying the entry's id, however many widgets the entry has;
\* and an event is published only by a user activation or a user toggle.
ActivationPublishesOneEvent ==
    [][/\ \A h \in DOMAIN gtk :
             (UserActivate(h) /\ Type(gtk[h].entry) = "Normal")
                 => channel' = Append(channel, EntryId(gtk[h].entry))
       /\ Len(channel') > Len(channel) => last'.op \in {"activate", "toggle"}]_vars

\* A normal entry with widgets in two windows has been activated, and one
\* event with its id is in the channel.
ActivationPublishesOneEventWitness ==
    /\ last.op = "activate"
    /\ Type(last.e) = "Normal"
    /\ Cardinality({h \in Shown : gtk[h].entry = last.e}) >= 2
    /\ channel = <<EntryId(last.e)>>

\* C22: the activation of a widget of a predefined entry publishes an event
\* carrying the entry's id.
PredefinedActivationPublishes ==
    [][\A h \in DOMAIN gtk :
          (UserActivate(h) /\ Type(gtk[h].entry) = "Predefined")
              => channel' = Append(channel, EntryId(gtk[h].entry))]_vars

\* C23: an entry with a registered native widget answers text(),
\* is_enabled() and is_checked() from its first-registered widget, not from
\* the cached logical field; an entry with no registered widget answers
\* them from the cached logical field.
GettersReadFirstWidget ==
    stack = <<>> =>
      \A e \in Entries :
         IF Peers(e) # <<>>
         THEN /\ GetterItem(e) # <<>>
              /\ GetterItem(e)[1] \in Range(Peers(e))
              /\ TextOf(e) = FromGtkMnemonic(gtk[Peers(e)[1]].label)
              /\ Type(e) # "Predefined" => is_enabled(e) = gtk[Peers(e)[1]].sensitive
              /\ Type(e) = "Check" => is_checked(e) = gtk[Peers(e)[1]].active
         ELSE /\ TextOf(e) = text[e]
              /\ is_enabled(e) = enabled[e]
              /\ is_checked(e) = checked[e]

\* The entries the constructors of the running application have created.
Created == app.items \cup UNION {Range(app.built[c]) : c \in Containers}

\* C24: two distinct entries the constructors created have different ids,
\* two distinct submenus included (an id is fixed at construction).
ConstructorsGiveDistinctIds ==
    \A e1, e2 \in Created : e1 # e2 => EntryId(e1) # EntryId(e2)

\* The windows a menubar has been created for.
AttachedWindows == {w \in Windows : \E m \in Menus : WinId(w) \in DOMAIN native_menus[m]}

\* The ids COUNTER gave to the context menus realized and to the submenu
\* instances stored.
CounterRootIds ==
    {ContextId(c) : c \in {x \in Containers : context_menu[x] # None}}
    \cup StoredInstanceIds

\* C25: the parent ids of the projections are pairwise distinct: the id of
\* a window's menubar equals neither the id of another window's menubar,
\* nor an id COUNTER gave to a context menu or a submenu instance, nor the
\* 0 of the transient popups.
ParentIdsAreDistinct ==
    \A w \in AttachedWindows :
       /\ \A w2 \in Windows \ {w} : WinId(w2) # WinId(w)
       /\ WinId(w) \notin CounterRootIds
       /\ WinId(w) # 0

\* Where the stores hold a handle: the entry, the parent id, the index.
StoreOccurrences ==
    UNION {UNION {{<<e, k, i>> : i \in 1..Len(store[e][k])} : k \in DOMAIN store[e]}
           : e \in Entries}

\* C26: each native widget handle occurs at most once over all projection
\* stores: for one entry, under one parent id, once.
HandleStoredOnce ==
    \A o1, o2 \in StoreOccurrences :
       ItemOf(o1[1], store[o1[1]][o1[2]][o1[3]]) = ItemOf(o2[1], store[o2[1]][o2[2]][o2[3]])
           => o1 = o2

\* Handles are stored for two entries, and for one of them under two parent
\* ids.
HandleStoredOnceWitness ==
    /\ \E e \in Entries : Cardinality(DOMAIN store[e]) >= 2
    /\ Cardinality({o[1] : o \in StoreOccurrences}) >= 2
    /\ Cardinality(StoreOccurrences) >= 4

\* The roots of the projections that do not belong to the window w: the
\* live menubars of the other windows and the realized context menus.
RootsOutside(w) ==
    {[menu |-> native_menus[p[1]][WinId(p[2])].bar, id |-> WinId(p[2])] :
        p \in {x \in Menus \X (Windows \ {w}) : Live(x[1], x[2])}}
    \cup {[menu |-> context_menu[c], id |-> ContextId(c)] :
            c \in {x \in Containers : context_menu[x] # None}}

\* The parent ids of a projection: the id of its root and the ids of the
\* submenu instances whose item is one of its widgets.
ProjectionIds(r) ==
    {r.id} \cup
    {store[o[1]][o[2]][o[3]].id :
        o \in {x \in StoreOccurrences :
                 /\ x[1] \in Submenus
                 /\ store[x[1]][x[2]][x[3]].item \in Reach(gtk, {r.menu})}}

\* The step leaves the widgets of a projection and what the stores hold
\* under its parent ids as they are; g and s are the next gtk and store.
ProjectionKept(r, g, s) ==
    /\ \A h \in Reach(gtk, {r.menu}) : h \in DOMAIN g /\ g[h] = gtk[h]
    /\ \A e \in Entries : \A k \in ProjectionIds(r) :
          /\ k \in DOMAIN s[e] <=> k \in DOMAIN store[e]
          /\ k \in DOMAIN store[e] => s[e][k] = store[e][k]
    /\ Reach(g, {r.menu}) \cap ((DOMAIN g) \ DOMAIN gtk) = {}

\* C27: attaching or detaching one window leaves the widgets and the store
\* entries of every other attached window and of every realized context
\* menu unchanged, and no widget created for the window is under another
\* root.
WindowOpsTouchOneProjection ==
    [][\A m \in Menus, w \in Windows :
          (InitForGtkWindow(m, w) \/ RemoveForGtkWindow(m, w))
              => \A r \in RootsOutside(w) : ProjectionKept(r, gtk', store')]_vars

\* C28: a window has the accelerator group of a menu attached exactly
\* while the menu has a live menubar for that window; a context menu and a
\* popup attach it to no window.
AccelWhileLiveMenubar ==
    /\ [](\A m \in Menus, w \in Windows : <<m, w>> \in accel <=> Live(m, w))
    /\ [][\A c \in Containers :
             (GtkContextMenu(c) \/ ShowContextMenu(c)) => accel' = accel]_vars

\* The realized context menu of c shows the children of c.
ContextMenuProjects(c) ==
    /\ context_menu[c] \in DOMAIN gtk
    /\ Projects(gtk[context_menu[c]].children, entries[c], FALSE, Depth)

\* The step adds to the native menu one new widget of e, stored for e
\* under parent_id, if GTK has a widget for e, and nothing otherwise; g and
\* s are the next gtk and store.
AddedTo(menu, parent_id, e, g, s) ==
    IF HasWidget(e)
    THEN \E h \in (DOMAIN g) \ DOMAIN gtk :
            /\ Len(g[menu].children) = Len(gtk[menu].children) + 1
            /\ SelectSeq(g[menu].children, LAMBDA x : x # h) = gtk[menu].children
            /\ g[h].entry = e
            /\ parent_id \in DOMAIN s[e]
            /\ h \in Range(ItemsOf(e, s[e][parent_id]))
    ELSE g[menu].children = gtk[menu].children

\* The step leaves no widget of e in the native menu and nothing stored for
\* e under parent_id, and keeps the other children in their order.
RemovedFrom(menu, parent_id, e, g, s) ==
    /\ g[menu].children = SelectSeq(gtk[menu].children, LAMBDA x : gtk[x].entry # e)
    /\ parent_id \notin DOMAIN s[e]

\* C29: the first gtk_context_menu() of a menu or submenu creates the native
\* menu and projects the current children into it; a later call returns the
\* same handle and creates neither widgets nor store entries; every later
\* append, insert and remove on the container is applied to the context menu
\* as well.
ContextMenuIsLazyAndFollows ==
    [][\A c \in Containers :
          /\ (GtkContextMenu(c) /\ context_menu[c] = None)
                => /\ context_menu'[c] \notin DOMAIN gtk
                   /\ ContextMenuProjects(c)'
          /\ (GtkContextMenu(c) /\ context_menu[c] # None)
                => /\ context_menu' = context_menu
                   /\ gtk' = gtk
                   /\ store' = store
          /\ \A e \in Entries :
                /\ (/\ context_menu[c] # None
                    /\ last'.res = "ok"
                    /\ \/ AppendItem(c, e)
                       \/ PrependItem(c, e)
                       \/ \E p \in 1..(MaxChildren + 1) : InsertItem(c, e, p))
                      => AddedTo(context_menu[c], ContextId(c), e, gtk', store')
                /\ (context_menu[c] # None /\ last'.res = "ok" /\ RemoveItem(c, e))
                      => RemovedFrom(context_menu[c], ContextId(c), e, gtk', store')]_vars

InsertItemsKeepsOrder ==
    [][(ops' # ops /\ last'.op \in {"insert_items", "prepend_items"}
           /\ last'.pos <= Len(entries[last'.c])) =>
          LET s == last'.c
              p == last'.pos
          IN /\ last'.res = "ok"
             /\ last'.op = "prepend_items" => p = 0
             /\ entries' = [entries EXCEPT ![s] =
                               SubSeq(@, 1, p) \o last'.items \o SubSeq(@, p + 1, Len(@))]]_vars

\* Two different items have been put between two children of a submenu
\* with insert_items.
InsertItemsKeepsOrderWitness ==
    /\ last.op = "insert_items" /\ last.res = "ok"
    /\ Len(last.items) = 2 /\ last.items[1] # last.items[2]
    /\ last.pos >= 1
    /\ Len(entries[last.c]) > last.pos + 2
    /\ SubSeq(entries[last.c], last.pos + 1, last.pos + 2) = last.items

\* C13: remove_at(i) with i below the length removes exactly the entry at
\* position i and returns it, the remaining children keep their order; with
\* i at or beyond the length it returns no item and the tree is unchanged.
RemoveAtRemovesThatPosition ==
    [][\A s \in Submenus, i \in 0..MaxChildren :
          RemoveAtItem(s, i) =>
              IF i < Len(entries[s])
              THEN /\ last'.res = "Some"
                   /\ last'.e = entries[s][i + 1]
                   /\ entries' = [entries EXCEPT ![s] = RemoveAt(@, i + 1)]
              ELSE /\ last'.res = "None"
                   /\ entries' = entries]_vars

(***************************************************************************)
(* Check items.                                                            *)
(***************************************************************************)
\* The widgets registered for a check item all show the value v.
PeersShow(e, v) == \A h \in Range(Peers(e)) : gtk[h].active = v

\* C1: when the handler of a user's toggle of one widget of a check item has
\* returned, the item's logical checked flag and every registered widget of
\* the item hold the widget's new value, and exactly one event, carrying the
\* item's id, has been published.
ToggleSyncsAllPeers ==
    (last.op = "toggle" /\ stack = <<>>) =>
        /\ checked[last.e] = last.value
        /\ PeersShow(last.e, last.value)
        /\ last.events = 1
        /\ channel \in {<<>>, <<EntryId(last.e)>>}

\* A toggle of a check item with at least two registered widgets has
\* returned and its event is on the channel.
ToggleSyncsAllPeersWitness ==
    /\ last.op = "toggle" /\ stack = <<>>
    /\ Len(Peers(last.e)) >= 2
    /\ channel = <<EntryId(last.e)>>
    /\ last.value

\* C2: a toggle notification that arrives while the guard is Syncing goes no
\* further than the guard: it starts no nested pass, publishes nothing and
\* leaves checked as the pass in progress set it; a pass in which every
\* other peer fires still publishes exactly one event.
SyncingDropsNotifications ==
    /\ \A i \in 2..Len(stack) : stack[i].pc = "cas" /\ is_syncing[stack[i].e]
    /\ (stack # <<>> /\ stack[1].pc \in {"loop", "send"}) =>
           checked[stack[1].e] = stack[1].value
    /\ (stack # <<>>) => last.events = 0
    /\ (stack = <<>> /\ last.op = "toggle") => last.events = 1
    /\ (stack = <<>> /\ last.op = "set_checked") => last.events = 0

\* A user's toggle has returned after every other registered widget fired a
\* notification that the guard dropped.
SyncingDropsNotificationsWitness ==
    /\ last.op = "toggle" /\ stack = <<>>
    /\ Len(Peers(last.e)) >= 2
    /\ last.dropped = Len(Peers(last.e)) - 1
    /\ last.events = 1

\* C3: set_checked(v), called while the guard is Idle, sets the logical
\* checked flag to v and every registered widget to v, publishes no event
\* and leaves the guard Idle.
SetCheckedIsSilent ==
    (last.op = "set_checked" /\ stack = <<>>) =>
        /\ checked[last.e] = last.value
        /\ PeersShow(last.e, last.value)
        /\ last.events = 0 /\ channel = <<>>
        /\ ~is_syncing[last.e]

\* set_checked has returned after changing at least two registered widgets.
SetCheckedIsSilentWitness ==
    /\ last.op = "set_checked" /\ stack = <<>>
    /\ last.dropped >= 2
    /\ PeersShow(last.e, last.value)

\* C32: in a toggle propagation pass the event is published last: when it
\* is sent the logical checked flag holds the toggled widget's value, every
\* registered widget shows that value, the guard is Idle again, nothing was
\* published before, and the handler returns; nothing else publishes
\* during a toggle.
ToggleEventIsLast ==
    [][/\ ToggledSend =>
             /\ Top.value = gtk[Top.item].active
             /\ checked[Top.e] = Top.value
             /\ PeersShow(Top.e, Top.value)
             /\ ~is_syncing[Top.e]
             /\ last.events = 0
             /\ stack' = <<>>
       /\ (last.op = "toggle" /\ stack # <<>> /\ channel' # channel) => ToggledSend]_vars

\* The event of a toggle has been published after two registered widgets
\* were set and the guard was put back.
ToggleEventIsLastWitness ==
    /\ last.op = "toggle" /\ stack = <<>>
    /\ last.events = 1 /\ channel # <<>>
    /\ Len(Peers(last.e)) >= 2
    /\ PeersShow(last.e, checked[last.e])
    /\ ~is_syncing[last.e]

\* C33: the is_syncing flag of a check item is false whenever neither a
\* toggle handler nor a set_checked call of that item is executing, so it
\* is false on entry to every public operation, whatever operations,
\* toggles, attaches and detaches came before.
GuardIdleOutsidePasses ==
    \A e \in Checks :
        (\A i \in 1..Len(stack) : stack[i].e # e) => ~is_syncing[e]

\* A window has been detached after a toggle or a set_checked checked a
\* check item of its menu, and the guard of the item is Idle.
GuardIdleOutsidePassesWitness ==
    /\ last.op = "detach" /\ last.res = "ok" /\ stack = <<>>
    /\ \E e \in Checks \cap Range(entries[last.c]) : checked[e] /\ ~is_syncing[e]

\* The ignored invocations a pass can cause: one for each registered widget
\* other than the one the user toggled.
MaxIgnored ==
    Len(Peers(last.e))
    - (IF stack # <<>> /\ stack[1].fn = "toggled" /\ stack[1].item \in Range(Peers(last.e))
       THEN 1 ELSE 0)

\* C34: every toggle propagation pass terminates with the guard Idle; it
\* starts no nested pass and causes at most one ignored invocation of the
\* handler for each registered widget it changes; and the handler a user's
\* toggle calls finds the guard Idle, so the toggle is not ignored.
TogglePassTerminates ==
    /\ (stack # <<>>) ~> (stack = <<>> /\ \A e \in Checks : ~is_syncing[e])
    /\ [](stack # <<>> =>
            /\ last.dropped <= MaxIgnored
            /\ Len(stack) <= 2
            /\ \A i \in 2..Len(stack) : stack[i].pc = "cas")
    /\ []((Len(stack) = 1 /\ stack[1].fn = "toggled" /\ stack[1].pc = "cas")
            => ~is_syncing[stack[1].e])

\* A user's toggle of a widget of a check item with two registered widgets
\* has been dispatched after an earlier pass on the item had returned.
TogglePassTerminatesWitness ==
    /\ Len(stack) = 1 /\ stack[1].fn = "toggled" /\ stack[1].pc = "dispatch"
    /\ Len(Peers(stack[1].e)) >= 2
    /\ checked[stack[1].e] # gtk[stack[1].item].active
    /\ checked[stack[1].e]

\* C35: when the handler of a user's toggle of a check widget of the
\* transient popup, a widget no store holds, has returned, the item's
\* logical checked flag holds the widget's new value, every registered
\* widget of the item, in every window, shows that value, and exactly one
\* event, carrying the item's id, has been published.
PopupToggleSyncsPeers ==
    (/\ last.op = "toggle" /\ stack = <<>>
     /\ last.item \in Reach(gtk, {popup} \ {None})
     /\ last.item \notin Registered(last.e)) =>
        /\ gtk[last.item].active = last.value
        /\ checked[last.e] = last.value
        /\ \A h \in Registered(last.e) : gtk[h].active = last.value
        /\ last.events = 1
        /\ channel \in {<<>>, <<EntryId(last.e)>>}

\* The check widget of a popup has been toggled while the item had a
\* registered widget in each of two windows, and its event is on the
\* channel.
PopupToggleSyncsPeersWitness ==
    /\ last.op = "toggle" /\ stack = <<>>
    /\ last.item \in Reach(gtk, {popup} \ {None})
    /\ last.item \notin Registered(last.e)
    /\ \A w \in Windows : \E h \in Registered(last.e) : h \in Under("M", w)
    /\ last.dropped = 2
    /\ channel = <<EntryId(last.e)>>

\* C36: init_for_gtk_window for a window that has a live menubar of the
\* menu does not project the tree a second time: the menubar keeps its
\* children, one widget for each logical entry, and the stores keep what
\* they hold, one handle for each widget.
SecondAttachProjectsNothing ==
    [][\A m \in Menus, w \in Windows :
          (InitForGtkWindow(m, w) /\ Live(m, w)) =>
              /\ gtk'[Bar(m, w)].children = gtk[Bar(m, w)].children
              /\ store' = store
              /\ BarProjects(m, w, FALSE) => BarProjects(m, w, FALSE)']_vars

\* C37: remove and remove_for_gtk_window never panic on a missing key of a
\* projection store, whatever appends, inserts, attaches, detaches, context
\* menus and popups came before.
RemoveNeverPanics ==
    last.op \in {"remove", "detach"} => last.res # "panic"

\* The native parents of container d that hold widgets of entry e: the
\* menubars or instances and the context menu of d under whose id e has
\* handles stored.
ParentsHolding(d, e) ==
    {t \in Range(Targets(d)) : t.id \in DOMAIN store[e]}

\* C38: an entry that is a child of two submenus has a projection of its
\* own under each: a successful remove from one of them takes the widgets
\* and the store entries under the instances and the context menu of that
\* submenu and leaves those under the other submenu as they were, still
\* among the handles the setters walk; and after set_text, set_enabled and
\* set_checked every registered widget of the entry shows the new value.
RemoveLeavesOtherParent ==
    /\ [][\A c \in Submenus, e \in Entries :
             (RemoveItem(c, e) /\ last'.res = "ok" /\ e \in Range(entries[c])) =>
                /\ \A t \in ParentsHolding(c, e) :
                      /\ t.id \notin DOMAIN store'[e]
                      /\ \A h \in Range(ItemsOf(e, store[e][t.id])) :
                            h \notin Range(gtk'[t.menu].children)
                /\ \A d \in Submenus \ {c} :
                      e \in Range(entries[d]) =>
                         \A t \in ParentsHolding(d, e) :
                            /\ t.id \in DOMAIN store'[e]
                            /\ store'[e][t.id] = store[e][t.id]
                            /\ gtk'[t.menu].children = gtk[t.menu].children
                            /\ \A h \in Range(ItemsOf(e, store[e][t.id])) :
                                  /\ gtk'[h] = gtk[h]
                                  /\ h \in Registered(e)']_vars
    /\ []((stack = <<>> /\ last.res = "ok"
             /\ last.op \in {"set_text", "set_enabled", "set_checked"}) =>
              \A h \in Registered(last.e) : ShowsEntry(h, last.e))

\* The entry has been removed from the submenu F while F and G were
\* projected in a window, which destroyed its widget under F, and a setter
\* has then changed its widget under G, the only widget it has left.
RemoveLeavesOtherParentWitness ==
    /\ stack = <<>> /\ last.res = "ok"
    /\ last.op \in {"set_text", "set_enabled", "set_checked"}
    /\ last.e \notin Range(entries["F"]) /\ last.e \in Range(entries["G"])
    /\ \E w \in Windows : Live("M", w)
    /\ Instances("F") # <<>>
    /\ popup = None
    /\ \E h \in 1..Cardinality(DOMAIN gtk) : h \notin DOMAIN gtk
    /\ ParentsHolding("G", last.e) # {}
    /\ Registered(last.e) =
          UNION {Range(store[last.e][t.id]) : t \in ParentsHolding("G", last.e)}
    /\ \A h \in Registered(last.e) :
          /\ ShowsEntry(h, last.e)
          /\ \/ gtk[h].label # ToGtkMnemonic(InitText(last.e))
             \/ gtk[h].sensitive # (last.e # "A")
             \/ gtk[h].active

\* The number of times x occurs in a sequence.
Occurrences(seq, x) == Cardinality({i \in 1..Len(seq) : seq[i] = x})

\* C39: when an entry occurs twice among the children of a container, a
\* successful remove of it takes one logical occurrence and one native
\* widget in each projection: in every projection of the container that
\* held as many widgets of the entry as the container had occurrences, the
\* number of widgets still equals the number of occurrences afterwards.
RemoveTakesOneOccurrence ==
    [][\A c \in Containers, e \in Entries :
          (/\ RemoveItem(c, e) /\ last'.res = "ok"
           /\ HasWidget(e) /\ Occurrences(entries[c], e) = 2) =>
              /\ Occurrences(entries'[c], e) = 1
              /\ \A t \in ParentsHolding(c, e) :
                    Occurrences(NativeSeq(gtk, t.menu), e) = 2
                        => Occurrences(NativeSeq(gtk', t.menu), e) = 1]_vars

====
